---------------------------- MODULE Spec2Model ----------------------------
(***************************************************************************)
(* The image mark (ImageElementClass, src/core/prototypes/marks/image.ts)  *)
(* as a state machine: one attribute store, the constraints the mark       *)
(* registers with the layout solver, the drawable it resolves to and the   *)
(* interactive affordances (handles, guides, drop zones, link anchors,     *)
(* bounding box) it derives from the store.                                *)
(*                                                                         *)
(* Numbers: every coordinate the model can hold is an odd integer (the     *)
(* defaults -15, -25, 15, 25 and the drag grid below), so every sum of two *)
(* corners is even and the divisions by two of the source are exact.       *)
(***************************************************************************)
EXTENDS Integers, Sequences, FiniteSets

VARIABLES
    attrs,      \* this.state.attributes: the attribute store
    props,      \* this.object.properties: visible, imageMode
    solver,     \* the constraints registered in the current solve pass
    lastOp,     \* the operation that produced this state, with its inputs
    ret,        \* what that operation returned ("void" when nothing)
    scenario    \* history: progress of "initialize, drag top-left to (5,-25), solve"

vars == <<attrs, props, solver, lastOp, ret, scenario>>

-----------------------------------------------------------------------------
(* Bounds of the model *)

\* number of grid steps to the right of the default left edge a handle can
\* be dragged to
MaxDragSteps == 1

\* positions a handle can be dropped at (odd, so midpoints stay integral):
\* a grid from the default left edge, and the default top and bottom edges
DragXs == { -15 + 20 * k : k \in 0..MaxDragSteps }
DragYs == { -25, 25 }

\* offsets the renderer is asked to draw at
Offsets == { [x |-> 0, y |-> 0], [x |-> 100, y |-> -40] }

Colors == { "null", "red" }
Images == { "", "null", "logo.png" }
ImageModes == { "letterbox", "fill", "stretch" }

Abs(v) == IF v < 0 THEN 0 - v ELSE v

-----------------------------------------------------------------------------
(* image.ts: constants and defaults *)

imagePlaceholder == [kind |-> "inline", data |-> "data:image/svg+xml;base64,PHN2Zy..."]

\* the null value of a drawable
Null == [type |-> "null"]

element == "image1"

defaultProperties == [visible |-> TRUE, imageMode |-> "letterbox"]

defaultWidth == 30
defaultHeight == 50

\* initializeState(): the store after initialization
initializeState ==
    [ x1 |-> (0 - defaultWidth) \div 2,
      y1 |-> (0 - defaultHeight) \div 2,
      x2 |-> defaultWidth \div 2,
      y2 |-> defaultHeight \div 2,
      cx |-> 0,
      cy |-> 0,
      width |-> defaultWidth,
      height |-> defaultHeight,
      stroke |-> "null",
      fill |-> "null",
      strokeWidth |-> 1,
      opacity |-> 1,
      visible |-> TRUE,
      image |-> "" ]

AttrNames == DOMAIN initializeState
CornerNames == { "x1", "y1", "x2", "y2" }
DerivedNames == { "cx", "cy", "width", "height" }

-----------------------------------------------------------------------------
(* buildConstraints: the four HARD equalities, as addLinear receives them:  *)
(* addLinear(strength, bias, lhs, rhs) states bias + sum(lhs) = sum(rhs),   *)
(* each term a <<coefficient, variable>> pair; solver.attrs binds a         *)
(* variable to the attribute of that name.                                  *)

addLinear(strength, bias, lhs, rhs) ==
    [strength |-> strength, bias |-> bias, lhs |-> lhs, rhs |-> rhs]

\* variant: the width equality with the sign of x1 lost
buildConstraints_sumForWidth(a) ==
    << addLinear("HARD", 0, << <<1, "x2">>, <<1, "x1">> >>, << <<1, "width">> >>),
       addLinear("HARD", 0, << <<1, "y2">>, <<-1, "y1">> >>, << <<1, "height">> >>),
       addLinear("HARD", 0, << <<2, "cx">> >>, << <<1, "x1">>, <<1, "x2">> >>),
       addLinear("HARD", 0, << <<2, "cy">> >>, << <<1, "y1">>, <<1, "y2">> >>) >>

\* variant: the x-centre equality with coefficient 1 instead of 2
buildConstraints_centerNotHalved(a) ==
    << addLinear("HARD", 0, << <<1, "x2">>, <<-1, "x1">> >>, << <<1, "width">> >>),
       addLinear("HARD", 0, << <<1, "y2">>, <<-1, "y1">> >>, << <<1, "height">> >>),
       addLinear("HARD", 0, << <<1, "cx">> >>, << <<1, "x1">>, <<1, "x2">> >>),
       addLinear("HARD", 0, << <<2, "cy">> >>, << <<1, "y1">>, <<1, "y2">> >>) >>

buildConstraints(a) ==
    << addLinear("HARD", 0, << <<1, "x2">>, <<-1, "x1">> >>, << <<1, "width">> >>),
       addLinear("HARD", 0, << <<1, "y2">>, <<-1, "y1">> >>, << <<1, "height">> >>),
       addLinear("HARD", 0, << <<2, "cx">> >>, << <<1, "x1">>, <<1, "x2">> >>),
       addLinear("HARD", 0, << <<2, "cy">> >>, << <<1, "y1">>, <<1, "y2">> >>) >>

-----------------------------------------------------------------------------
(* The layout solver (src/core/solver, an external service of the mark):    *)
(* it keeps the corners as they stand, edits included, and assigns each     *)
(* other variable a value that satisfies every registered equality.         *)

RECURSIVE Linear(_, _)
Linear(terms, a) ==
    IF terms = <<>> THEN 0
    ELSE Head(terms)[1] * a[Head(terms)[2]] + Linear(Tail(terms), a)

\* the net coefficient of a variable in bias + sum(lhs) = sum(rhs)
Coefficient(c, name) ==
    LET unit == [n \in AttrNames |-> IF n = name THEN 1 ELSE 0]
    IN  Linear(c.lhs, unit) - Linear(c.rhs, unit)

\* what the equality leaves over with the variable taken out
Residual(c, a, name) ==
    LET rest == [a EXCEPT ![name] = 0]
    IN  c.bias + Linear(c.lhs, rest) - Linear(c.rhs, rest)

\* the value of one variable: the root of the first equality that binds it,
\* or its current value when none does (or none is representable)
SolvedValue(cons, a, name) ==
    LET binding == { i \in DOMAIN cons : Coefficient(cons[i], name) # 0 } IN
    IF binding = {} THEN a[name]
    ELSE LET c == cons[CHOOSE i \in binding : \A j \in binding : i <= j]
             k == Coefficient(c, name)
             r == Residual(c, a, name)
             q == (0 - r) \div k
         IN  IF k * q + r = 0 THEN q ELSE a[name]

solve(cons, a) ==
    [ n \in AttrNames |->
        IF n \in DerivedNames THEN SolvedValue(cons, a, n) ELSE a[n] ]

-----------------------------------------------------------------------------
(* getGraphics and the services it calls *)

\* a Cartesian coordinate system: transformPoint is the identity
transformPoint(x, y) == [x |-> x, y |-> y]
getLocalTransform(x, y) == [x |-> x, y |-> y, angle |-> 0]
\* Geometry.pointDistance, exact for the axis-aligned pairs getGraphics passes
pointDistance(p, q) == Abs(p.x - q.x) + Abs(p.y - q.y)
\* CoordinateSystemHelper.rect
rect(x1, y1, x2, y2, style) ==
    [type |-> "rect", x1 |-> x1, y1 |-> y1, x2 |-> x2, y2 |-> y2, style |-> style]
resolveResource(key) == [kind |-> "resource", data |-> key]

\* variant: the object-level visible property is not consulted
hidden_attributeOnly(a, p) == ~a.visible

\* the early return: either visible flag false
hidden(a, p) == ~a.visible \/ ~p.visible

fillRect(a, offset) ==
    IF a.fill # "null"
    THEN << rect(a.x1 + offset.x, a.y1 + offset.y,
                 a.x2 + offset.x, a.y2 + offset.y,
                 [strokeColor |-> "null", fillColor |-> a.fill]) >>
    ELSE <<>>

imageGroup(a, p, offset) ==
    LET cx == (a.x1 + a.x2) \div 2
        cy == (a.y1 + a.y2) \div 2
        localWidth ==
            pointDistance(transformPoint(a.x1 + offset.x, cy + offset.y),
                          transformPoint(a.x2 + offset.x, cy + offset.y))
        localHeight ==
            pointDistance(transformPoint(cx + offset.x, a.y1 + offset.y),
                          transformPoint(cx + offset.x, a.y2 + offset.y))
    IN  [ type |-> "group",
          elements |->
            << [ type |-> "image",
                 src |-> IF a.image = "" \/ a.image = "null"
                         THEN imagePlaceholder
                         ELSE resolveResource(a.image),
                 x |-> 0 - (localWidth \div 2),
                 y |-> 0 - (localHeight \div 2),
                 width |-> localWidth,
                 height |-> localHeight,
                 mode |-> p.imageMode ] >>,
          transform |-> getLocalTransform(cx + offset.x, cy + offset.y) ]

strokeRect(a, offset) ==
    IF a.stroke # "null"
    THEN << rect(a.x1 + offset.x, a.y1 + offset.y,
                 a.x2 + offset.x, a.y2 + offset.y,
                 [strokeColor |-> a.stroke,
                  strokeWidth |-> a.strokeWidth,
                  strokeLinejoin |-> "miter",
                  fillColor |-> "null"]) >>
    ELSE <<>>

\* variant: the image is pushed before the filled rectangle
groupElements_imageFirst(a, p, offset) ==
    <<imageGroup(a, p, offset)>> \o fillRect(a, offset) \o strokeRect(a, offset)

\* the pushes onto g.elements, in the order the code makes them
groupElements(a, p, offset) ==
    fillRect(a, offset) \o <<imageGroup(a, p, offset)>> \o strokeRect(a, offset)

getGraphics(a, p, offset) ==
    IF hidden(a, p) THEN Null
    ELSE [ type |-> "group",
           elements |-> groupElements(a, p, offset),
           style |-> [opacity |-> a.opacity] ]

-----------------------------------------------------------------------------
(* The interaction geometry: pure functions of the attribute store *)

Point(x, y, xAttribute, yAttribute, dx, dy) ==
    [ x |-> x, y |-> y, xAttribute |-> xAttribute, yAttribute |-> yAttribute,
      direction |-> [x |-> dx, y |-> dy] ]

getLinkAnchors(a) ==
    << [ element |-> element,
         points |-> << Point(a.x1, a.y1, "x1", "y1", -1, 0),
                       Point(a.x1, a.y2, "x1", "y2", -1, 0) >> ],
       [ element |-> element,
         points |-> << Point(a.x2, a.y1, "x2", "y1", 1, 0),
                       Point(a.x2, a.y2, "x2", "y2", 1, 0) >> ],
       [ element |-> element,
         points |-> << Point(a.x1, a.y1, "x1", "y1", 0, -1),
                       Point(a.x2, a.y1, "x2", "y1", 0, -1) >> ],
       [ element |-> element,
         points |-> << Point(a.x1, a.y2, "x1", "y2", 0, 1),
                       Point(a.x2, a.y2, "x2", "y2", 0, 1) >> ],
       [ element |-> element,
         points |-> << Point(a.cx, a.y1, "cx", "y1", 0, -1) >> ],
       [ element |-> element,
         points |-> << Point(a.cx, a.y2, "cx", "y2", 0, 1) >> ],
       [ element |-> element,
         points |-> << Point(a.x1, a.cy, "x1", "cy", -1, 0) >> ],
       [ element |-> element,
         points |-> << Point(a.x2, a.cy, "x2", "cy", 1, 0) >> ] >>

DropZone(p1, p2, title, attribute) ==
    [ type |-> "line", p1 |-> p1, p2 |-> p2, title |-> title,
      accept |-> [kind |-> "numerical"],
      dropAction |->
        [ scaleInference |->
            [ attribute |-> attribute, attributeType |-> "number",
              hints |-> [autoRange |-> TRUE] ] ] ]

getDropZones(a) ==
    << DropZone([x |-> a.x2, y |-> a.y1], [x |-> a.x1, y |-> a.y1], "width", "width"),
       DropZone([x |-> a.x1, y |-> a.y1], [x |-> a.x1, y |-> a.y2], "height", "height") >>

LineHandle(axis, attribute, value, span) ==
    [ type |-> "line", axis |-> axis,
      actions |-> << [type |-> "attribute", attribute |-> attribute] >>,
      value |-> value, span |-> span ]

PointHandle(x, y, xAttribute, yAttribute) ==
    [ type |-> "point", x |-> x, y |-> y,
      actions |-> << [type |-> "attribute", source |-> "x", attribute |-> xAttribute],
                     [type |-> "attribute", source |-> "y", attribute |-> yAttribute] >> ]

\* variant: the bottom-right point handle writes x1 instead of x2
getHandles_cornerMixedUp(a) ==
    << LineHandle("x", "x1", a.x1, <<a.y1, a.y2>>),
       LineHandle("x", "x2", a.x2, <<a.y1, a.y2>>),
       LineHandle("y", "y1", a.y1, <<a.x1, a.x2>>),
       LineHandle("y", "y2", a.y2, <<a.x1, a.x2>>),
       PointHandle(a.x1, a.y1, "x1", "y1"),
       PointHandle(a.x1, a.y2, "x1", "y2"),
       PointHandle(a.x2, a.y1, "x2", "y1"),
       PointHandle(a.x2, a.y2, "x1", "y2") >>

getHandles(a) ==
    << LineHandle("x", "x1", a.x1, <<a.y1, a.y2>>),
       LineHandle("x", "x2", a.x2, <<a.y1, a.y2>>),
       LineHandle("y", "y1", a.y1, <<a.x1, a.x2>>),
       LineHandle("y", "y2", a.y2, <<a.x1, a.x2>>),
       PointHandle(a.x1, a.y1, "x1", "y1"),
       PointHandle(a.x1, a.y2, "x1", "y2"),
       PointHandle(a.x2, a.y1, "x2", "y1"),
       PointHandle(a.x2, a.y2, "x2", "y2") >>

\* variant: the size without Math.abs
getBoundingBox_signed(a) ==
    [ type |-> "rectangle",
      cx |-> (a.x1 + a.x2) \div 2,
      cy |-> (a.y1 + a.y2) \div 2,
      width |-> a.x2 - a.x1,
      height |-> a.y2 - a.y1,
      rotation |-> 0 ]

getBoundingBox(a) ==
    [ type |-> "rectangle",
      cx |-> (a.x1 + a.x2) \div 2,
      cy |-> (a.y1 + a.y2) \div 2,
      width |-> Abs(a.x2 - a.x1),
      height |-> Abs(a.y2 - a.y1),
      rotation |-> 0 ]

Guide(type, value, attribute) ==
    [type |-> type, value |-> value, attribute |-> attribute]

\* variant: the x-centre guide reads x1
getSnappingGuides_centerIsLeftEdge(a) ==
    << Guide("x", a.x1, "x1"),
       Guide("x", a.x2, "x2"),
       Guide("x", a.x1, "cx"),
       Guide("y", a.y1, "y1"),
       Guide("y", a.y2, "y2"),
       Guide("y", a.cy, "cy") >>

getSnappingGuides(a) ==
    << Guide("x", a.x1, "x1"),
       Guide("x", a.x2, "x2"),
       Guide("x", a.cx, "cx"),
       Guide("y", a.y1, "y1"),
       Guide("y", a.y2, "y2"),
       Guide("y", a.cy, "cy") >>

-----------------------------------------------------------------------------
(* A handle's write actions, as the editor applies them: an action of a    *)
(* point handle takes the dragged position's coordinate named by its       *)
(* source; the single action of a line handle takes the coordinate along   *)
(* the handle's axis.                                                      *)

ActionValue(h, act, px, py) ==
    IF h.type = "point"
    THEN (IF act.source = "x" THEN px ELSE py)
    ELSE (IF h.axis = "x" THEN px ELSE py)

RECURSIVE ApplyActions(_, _, _, _, _)
ApplyActions(a, h, acts, px, py) ==
    IF acts = <<>> THEN a
    ELSE ApplyActions([a EXCEPT ![Head(acts).attribute] = ActionValue(h, Head(acts), px, py)],
                      h, Tail(acts), px, py)

\* the attribute/value pairs a handle writes for a drag to (px, py)
Writes(h, px, py) ==
    { <<h.actions[i].attribute, ActionValue(h, h.actions[i], px, py)>> : i \in DOMAIN h.actions }

-----------------------------------------------------------------------------
(* The state machine *)

Void == [type |-> "void"]

Op(name) == [op |-> name, handle |-> 0, writes |-> {}]

Init ==
    /\ attrs = initializeState
    /\ props = defaultProperties
    /\ solver = <<>>
    /\ lastOp = Op("initializeState")
    /\ ret = Void
    /\ scenario = 1

InitializeState ==
    /\ attrs' = initializeState
    /\ lastOp' = Op("initializeState")
    /\ ret' = Void
    /\ scenario' = 1
    /\ UNCHANGED <<props, solver>>

\* the editor applies the write actions of handle i for a drag to (px, py)
HandleWrite(i, px, py) ==
    LET h == getHandles(attrs)[i] IN
    /\ attrs' = ApplyActions(attrs, h, h.actions, px, py)
    /\ lastOp' = [op |-> "handle", handle |-> i, writes |-> Writes(h, px, py)]
    /\ ret' = Void
    /\ scenario' = IF scenario = 1 /\ i = 5 /\ px = 5 /\ py = -25 THEN 2 ELSE 0
    /\ UNCHANGED <<props, solver>>

\* variant: buildConstraints also assigns width directly
BuildConstraints_assignsWidth ==
    /\ solver = <<>>
    /\ solver' = buildConstraints(attrs)
    /\ attrs' = [attrs EXCEPT !.width = attrs.x2 - attrs.x1]
    /\ lastOp' = Op("buildConstraints")
    /\ ret' = Void
    /\ UNCHANGED <<props, scenario>>

\* a solve pass starts: the mark registers its constraints with a fresh solver
BuildConstraints ==
    /\ solver = <<>>
    /\ solver' = buildConstraints(attrs)
    /\ lastOp' = Op("buildConstraints")
    /\ ret' = Void
    /\ UNCHANGED <<attrs, props, scenario>>

\* the solve pass ends: the solver writes the solved values back as a batch
SolverSolve ==
    /\ solver # <<>>
    /\ attrs' = solve(solver, attrs)
    /\ solver' = <<>>
    /\ lastOp' = Op("solve")
    /\ ret' = Void
    /\ scenario' = IF scenario = 2 THEN 3 ELSE 0
    /\ UNCHANGED props

Query(name, value) ==
    /\ lastOp' = Op(name)
    /\ ret' = value
    /\ UNCHANGED <<attrs, props, solver, scenario>>

GetGraphics(offset) == Query("getGraphics", getGraphics(attrs, props, offset))
GetLinkAnchors == Query("getLinkAnchors", getLinkAnchors(attrs))
GetDropZones == Query("getDropZones", getDropZones(attrs))
GetHandles == Query("getHandles", getHandles(attrs))
GetBoundingBox == Query("getBoundingBox", getBoundingBox(attrs))
GetSnappingGuides == Query("getSnappingGuides", getSnappingGuides(attrs))

\* the handles by kind, and where a line handle can be dragged to (only the
\* coordinate along its axis is read)
LineHandles == { i \in 1..8 : getHandles(initializeState)[i].type = "line" }
PointHandles == { i \in 1..8 : getHandles(initializeState)[i].type = "point" }
DragAlong(i) == IF getHandles(initializeState)[i].axis = "x" THEN DragXs ELSE DragYs

QueryNames ==
    { "getGraphics", "getLinkAnchors", "getDropZones", "getHandles",
      "getBoundingBox", "getSnappingGuides" }

Next ==
    \/ InitializeState
    \/ \E i \in LineHandles : \E v \in DragAlong(i) : HandleWrite(i, v, v)
    \/ \E i \in PointHandles, px \in DragXs, py \in DragYs : HandleWrite(i, px, py)
    \/ BuildConstraints
    \/ SolverSolve
    \/ \E offset \in Offsets : GetGraphics(offset)
    \/ GetLinkAnchors
    \/ GetDropZones
    \/ GetHandles
    \/ GetBoundingBox
    \/ GetSnappingGuides

Spec == Init /\ [][Next]_vars

-----------------------------------------------------------------------------
(* Rendering as a function of the store: every store a host can restore,   *)
(* solved, with any style, payload and visibility, is drawn at any offset. *)

CornerXs == DragXs \cup { initializeState.x1, initializeState.x2 }
CornerYs == DragYs \cup { initializeState.y1, initializeState.y2 }

RestoredStores ==
    { [ x1 |-> c[1], y1 |-> c[2], x2 |-> c[3], y2 |-> c[4],
        cx |-> (c[1] + c[3]) \div 2, cy |-> (c[2] + c[4]) \div 2,
        width |-> c[3] - c[1], height |-> c[4] - c[2],
        stroke |-> s[1], fill |-> s[2], strokeWidth |-> 1, opacity |-> 1,
        visible |-> s[3], image |-> s[4] ] :
      c \in CornerXs \X CornerYs \X CornerXs \X CornerYs,
      s \in Colors \X Colors \X BOOLEAN \X Images }

RenderInit ==
    /\ attrs \in RestoredStores
    /\ props \in [visible : BOOLEAN, imageMode : ImageModes]
    /\ solver = <<>>
    /\ lastOp = Op("restore")
    /\ ret = Void
    /\ scenario = 0

RenderNext == \E offset \in Offsets : GetGraphics(offset)

SpecRender == RenderInit /\ [][RenderNext]_vars

-----------------------------------------------------------------------------
(* Properties *)

Min(u, v) == IF u <= v THEN u ELSE v
Max(u, v) == IF u <= v THEN v ELSE u

\* the four intrinsic equalities between the geometric attributes
Consistent(a) ==
    /\ a.width = a.x2 - a.x1
    /\ a.height = a.y2 - a.y1
    /\ 2 * a.cx = a.x1 + a.x2
    /\ 2 * a.cy = a.y1 + a.y2

\* C1: in the state initializeState produces and in every state a solve pass
\* has just produced, whatever handle writes came before, width = x2 - x1,
\* height = y2 - y1, 2*cx = x1 + x2 and 2*cy = y1 + y2; the initial state is
\* (x1,y1,x2,y2) = (-15,-25,15,25) with width 30, height 50, cx 0, cy 0.
C1_EqualitiesAfterInitAndSolve ==
    /\ lastOp.op \in {"initializeState", "solve"} => Consistent(attrs)
    /\ lastOp.op = "initializeState" =>
          /\ <<attrs.x1, attrs.y1, attrs.x2, attrs.y2>> = <<-15, -25, 15, 25>>
          /\ <<attrs.width, attrs.height, attrs.cx, attrs.cy>> = <<30, 50, 0, 0>>

\* a solve has just re-derived the size and centre of a box that handle
\* writes had flipped and moved
C1_Witness ==
    /\ lastOp.op = "solve"
    /\ attrs.x1 > attrs.x2
    /\ attrs.width = attrs.x2 - attrs.x1
    /\ attrs.cx # 0

\* C2: getGraphics returns null exactly when the attribute visible or the
\* object property visible is false; otherwise, zero-size and flipped boxes
\* included, it returns a group.
C2_NullIffInvisible ==
    lastOp.op = "getGraphics" =>
        /\ (ret.type = "null") <=> (~attrs.visible \/ ~props.visible)
        /\ ret.type \in {"null", "group"}

\* the attribute says visible, the object property hides the mark
C2_Witness ==
    /\ lastOp.op = "getGraphics"
    /\ ret.type = "null"
    /\ attrs.visible
    /\ ~props.visible
    /\ attrs.x1 > attrs.x2

\* C3: a drawn group holds, in this order, a filled rectangle iff fill is set,
\* exactly one image group, and a stroked rectangle iff stroke is set; in the
\* default state it holds only the image group, showing the placeholder.
C3_ElementOrder ==
    (lastOp.op = "getGraphics" /\ ret.type = "group") =>
        LET e == ret.elements
            nFill == IF attrs.fill # "null" THEN 1 ELSE 0
            nStroke == IF attrs.stroke # "null" THEN 1 ELSE 0
            img == e[nFill + 1]
        IN  /\ Len(e) = nFill + 1 + nStroke
            /\ nFill = 1 =>
                  /\ e[1].type = "rect"
                  /\ e[1].style.fillColor = attrs.fill
                  /\ e[1].style.strokeColor = "null"
            /\ img.type = "group"
            /\ Len(img.elements) = 1
            /\ img.elements[1].type = "image"
            /\ nStroke = 1 =>
                  /\ e[Len(e)].type = "rect"
                  /\ e[Len(e)].style.strokeColor = attrs.stroke
                  /\ e[Len(e)].style.fillColor = "null"
            /\ (attrs = initializeState /\ props = defaultProperties) =>
                  /\ Len(e) = 1
                  /\ img.elements[1].src = imagePlaceholder

\* fill and stroke both set: [filled rect, image group, stroked rect]
C3_Witness ==
    /\ lastOp.op = "getGraphics"
    /\ ret.type = "group"
    /\ attrs.fill # "null"
    /\ attrs.stroke # "null"
    /\ Len(ret.elements) = 3
    /\ ret.elements[2].type = "group"

SwapX(a) == [a EXCEPT !.x1 = a.x2, !.x2 = a.x1]
SwapY(a) == [a EXCEPT !.y1 = a.y2, !.y2 = a.y1]

\* C4: getBoundingBox is the same for a box and for the box with x1 and x2, or
\* y1 and y2, swapped; width = |x2 - x1| and height = |y2 - y1| are never
\* negative, rotation is 0, and the default box gives (0, 0, 30, 50, 0).
C4_BoundingBoxSwapInvariant ==
    lastOp.op = "getBoundingBox" =>
        /\ getBoundingBox(SwapX(attrs)) = ret
        /\ getBoundingBox(SwapY(attrs)) = ret
        /\ ret.width = Abs(attrs.x2 - attrs.x1) /\ ret.width >= 0
        /\ ret.height = Abs(attrs.y2 - attrs.y1) /\ ret.height >= 0
        /\ ret.rotation = 0
        /\ <<attrs.x1, attrs.y1, attrs.x2, attrs.y2>> = <<-15, -25, 15, 25>> =>
              <<ret.cx, ret.cy, ret.width, ret.height>> = <<0, 0, 30, 50>>

\* the bounding box of a box flipped on both axes
C4_Witness ==
    /\ lastOp.op = "getBoundingBox"
    /\ attrs.x1 > attrs.x2
    /\ attrs.y1 > attrs.y2
    /\ ret.width > 0
    /\ ret.height > 0


\* the handles of a store: 4 line handles, one single write on each corner
\* attribute, and 4 point handles, one on each pair of {x1,x2} x {y1,y2},
\* each standing at the current values of its pair
HandlesShape(a) ==
    LET h == getHandles(a)
        lines == { i \in DOMAIN h : h[i].type = "line" }
        points == { i \in DOMAIN h : h[i].type = "point" }
    IN  /\ Len(h) = 8
        /\ Cardinality(lines) = 4
        /\ Cardinality(points) = 4
        /\ \A i \in lines : Len(h[i].actions) = 1
        /\ { h[i].actions[1].attribute : i \in lines } = CornerNames
        /\ \A i \in points :
              /\ Len(h[i].actions) = 2
              /\ h[i].actions[1].source = "x"
              /\ h[i].actions[2].source = "y"
              /\ h[i].x = a[h[i].actions[1].attribute]
              /\ h[i].y = a[h[i].actions[2].attribute]
        /\ { <<h[i].actions[1].attribute, h[i].actions[2].attribute>> : i \in points }
              = {"x1", "x2"} \X {"y1", "y2"}

\* a step that applies a point handle's writes sets the two attributes the
\* handle names and no other attribute of the store
PointWriteFrame ==
    (lastOp'.op = "handle" /\ lastOp'.handle \in PointHandles) =>
        LET named == { w[1] : w \in lastOp'.writes } IN
        /\ Cardinality(named) = 2
        /\ \E xa \in {"x1", "x2"}, ya \in {"y1", "y2"} : named = {xa, ya}
        /\ \A w \in lastOp'.writes : attrs'[w[1]] = w[2]
        /\ \A n \in AttrNames \ named : attrs'[n] = attrs[n]
        /\ props' = props

\* C5: in every state getHandles returns exactly 4 line handles, each with one
\* write on a distinct one of x1, x2, y1, y2, and 4 point handles, one per pair
\* in {x1,x2} x {y1,y2}, each at the current values of its pair; applying a
\* point handle's two writes changes exactly the two named corner attributes.
C5_HandlesAndPointWrites ==
    /\ [](HandlesShape(attrs))
    /\ [](lastOp.op = "getHandles" => ret = getHandles(attrs) /\ Len(ret) = 8)
    /\ [][PointWriteFrame]_vars

\* the bottom-right point handle was dragged: x2 and y2 moved, the rest
\* (here the stored size and centre of the default box) stayed
C5_Witness ==
    /\ lastOp.op = "handle"
    /\ lastOp.handle = 8
    /\ lastOp.writes = { <<"x2", 5>>, <<"y2", -25>> }
    /\ <<attrs.x1, attrs.y1, attrs.x2, attrs.y2>> = <<-15, -25, 5, -25>>
    /\ <<attrs.width, attrs.height, attrs.cx, attrs.cy>> = <<30, 50, 0, 0>>

\* a solve that directly follows a handle write keeps all four corners, the
\* written ones included, and re-derives size and centre from them
WriteThenSolve ==
    (lastOp.op = "handle" /\ lastOp'.op = "solve") =>
        /\ \A n \in CornerNames : attrs'[n] = attrs[n]
        /\ \A w \in lastOp.writes : attrs'[w[1]] = w[2]
        /\ Consistent(attrs')

\* C6: a handle write followed by a solve keeps the written and the untouched
\* corner values and re-derives size and centre; from the defaults, dragging
\* the top-left point handle to (5,-25) and solving gives x1=5, y1=-25, x2=15,
\* y2=25, width=10, height=50, cx=10, cy=0.
C6_DragTopLeftThenSolve ==
    /\ [](scenario = 3 =>
            /\ <<attrs.x1, attrs.y1, attrs.x2, attrs.y2>> = <<5, -25, 15, 25>>
            /\ <<attrs.width, attrs.height, attrs.cx, attrs.cy>> = <<10, 50, 10, 0>>)
    /\ [][WriteThenSolve]_vars

\* the scenario has run to its end: initialize, drag top-left, solve
C6_Witness ==
    /\ scenario = 3
    /\ lastOp.op = "solve"
    /\ attrs.width = 10

\* C7 (as claimed): the x-axis line handles span [min(y1,y2), max(y1,y2)] and
\* the y-axis line handles span [min(x1,x2), max(x1,x2)], whatever the order
\* of the corners.
C7_SpanIsSorted ==
    LET h == getHandles(attrs) IN
    \A i \in DOMAIN h :
        h[i].type = "line" =>
            h[i].span = IF h[i].axis = "x"
                        THEN <<Min(attrs.y1, attrs.y2), Max(attrs.y1, attrs.y2)>>
                        ELSE <<Min(attrs.x1, attrs.x2), Max(attrs.x1, attrs.x2)>>

\* the direction that leaves the box at a point: -1 at the smaller of the two
\* corner values, +1 at the larger
Outward(v, lo, hi) == IF v = Min(lo, hi) THEN -1 ELSE 1

\* C8 (as claimed): getLinkAnchors returns eight groups, four of two points
\* and four of one point, and every point's direction is the outward unit
\* normal of its edge: -x at the smaller x, +x at the larger, likewise for y.
C8_AnchorsPointOutward ==
    LET g == getLinkAnchors(attrs) IN
    /\ Len(g) = 8
    /\ Cardinality({ i \in DOMAIN g : Len(g[i].points) = 2 }) = 4
    /\ Cardinality({ i \in DOMAIN g : Len(g[i].points) = 1 }) = 4
    /\ \A i \in DOMAIN g : \A j \in DOMAIN g[i].points :
          LET p == g[i].points[j] IN
          /\ Abs(p.direction.x) + Abs(p.direction.y) = 1
          /\ (p.direction.x # 0 /\ attrs.x1 # attrs.x2) =>
                p.direction.x = Outward(p.x, attrs.x1, attrs.x2)
          /\ (p.direction.y # 0 /\ attrs.y1 # attrs.y2) =>
                p.direction.y = Outward(p.y, attrs.y1, attrs.y2)

\* the four equalities as buildConstraints must register them
HardEqualities ==
    << [strength |-> "HARD", bias |-> 0,
        lhs |-> << <<1, "x2">>, <<-1, "x1">> >>, rhs |-> << <<1, "width">> >>],
       [strength |-> "HARD", bias |-> 0,
        lhs |-> << <<1, "y2">>, <<-1, "y1">> >>, rhs |-> << <<1, "height">> >>],
       [strength |-> "HARD", bias |-> 0,
        lhs |-> << <<2, "cx">> >>, rhs |-> << <<1, "x1">>, <<1, "x2">> >>],
       [strength |-> "HARD", bias |-> 0,
        lhs |-> << <<2, "cy">> >>, rhs |-> << <<1, "y1">>, <<1, "y2">> >>] >>

ReadOnlySteps ==
    /\ lastOp'.op \in QueryNames \cup {"buildConstraints"} =>
          attrs' = attrs /\ props' = props
    /\ attrs' # attrs => lastOp'.op \in {"initializeState", "handle", "solve"}
    /\ lastOp'.op = "buildConstraints" => solver' = HardEqualities

\* C9: the six queries and buildConstraints leave every attribute unchanged;
\* only initializeState, a handle write and the solver's batch write change
\* attributes; buildConstraints registers the same four HARD equalities on
\* every call, whatever the attribute values.
C9_QueriesAndConstraintsReadOnly == [][ReadOnlySteps]_vars

\* buildConstraints ran on an edited, not yet solved, flipped box
C9_Witness ==
    /\ lastOp.op = "buildConstraints"
    /\ solver = HardEqualities
    /\ attrs.x1 > attrs.x2
    /\ attrs.width # attrs.x2 - attrs.x1

\* the centre the guides and the midpoint anchors report is the centre of the
\* bounding box, and the midpoint anchors lie at the midpoints of the edges
CentersAgree(a) ==
    LET bb == getBoundingBox(a)
        gs == getSnappingGuides(a)
        la == getLinkAnchors(a)
        mid == { i \in DOMAIN la : Len(la[i].points) = 1 }
    IN  /\ \A i \in DOMAIN gs :
              /\ gs[i].attribute = "cx" => gs[i].value = bb.cx
              /\ gs[i].attribute = "cy" => gs[i].value = bb.cy
        /\ Cardinality(mid) = 4
        /\ \A i \in mid :
              LET p == la[i].points[1] IN
              /\ p.xAttribute = "cx" => (p.x = bb.cx /\ 2 * p.x = a.x1 + a.x2)
              /\ p.yAttribute = "cy" => (p.y = bb.cy /\ 2 * p.y = a.y1 + a.y2)
              /\ p.xAttribute = "cx" \/ p.yAttribute = "cy"

\* C10 (as claimed): in every reachable state, after a handle write too, the
\* centre guides and midpoint anchors agree with getBoundingBox.
C10_CentersAgreeAlways == CentersAgree(attrs)

\* C10 (amended): in the state initializeState produces and in every state a
\* solve pass has just produced, the centre guides and the midpoint anchors
\* use the centre getBoundingBox returns, (x1 + x2)/2 and (y1 + y2)/2.
C10_CentersAgreeAfterInitAndSolve ==
    lastOp.op \in {"initializeState", "solve"} => CentersAgree(attrs)

\* a solve has just moved the stored centre to that of an edited box
C10_Witness ==
    /\ lastOp.op = "solve"
    /\ attrs.cx = 10
    /\ getSnappingGuides(attrs)[3].value = 10
    /\ getBoundingBox(attrs).cx = 10

=============================================================================
